---- MODULE Spec2Model ----
(***************************************************************************)
(* Model of the synthetic EML generator.                                   *)
(*                                                                         *)
(*  - core/received_chain_builder.py : ReceivedChainBuilder.build and its  *)
(*    helpers (domain resolution, host chain, public IP sampling, the hop  *)
(*    loop), executed statement group by statement group;                  *)
(*  - generator.py : the ReceivedChainBuilder that EmailGenerator uses     *)
(*    (documentation addresses and hosts), EmailGenerator.create_message;  *)
(*  - main.py : load_template and main;                                    *)
(*  - eml_writer.py : EmlWriter.write against a small file system.         *)
(*                                                                         *)
(* Strings are sequences of one-character strings (tokens for the fixed    *)
(* parts of f-strings); instants are integers in microseconds; a 32-bit    *)
(* random draw is its four octets.                                         *)
(***************************************************************************)
EXTENDS Integers, Sequences, FiniteSets, TLC

\* ------------------------------------------------------------------ bounds
MaxHops == 3

\* ------------------------------------------------------------- python bits
NoneVal == <<"<None>">>

Truthy(x) == x # NoneVal /\ x # <<>>

PyOr(a, b) == IF Truthy(a) THEN a ELSE b

SetMax(S) == CHOOSE m \in S : \A x \in S : x <= m

SetMin(S) == CHOOSE m \in S : \A x \in S : m <= x

Max2(a, b) == IF a >= b THEN a ELSE b

Reversed(s) == [k \in 1..Len(s) |-> s[Len(s) + 1 - k]]

Positions(s, ch) == {k \in 1..Len(s) : s[k] = ch}

Contains(s, ch) == Positions(s, ch) # {}

Tail0(s, k) == SubSeq(s, k, Len(s))

LowerChar(ch) ==
    CASE ch = "A" -> "a"
      [] ch = "B" -> "b"
      [] ch = "F" -> "f"
      [] OTHER -> ch

Lower(s) == [k \in 1..Len(s) |-> LowerChar(s[k])]

Strip(s) ==
    LET keep == {k \in 1..Len(s) : s[k] # " "}
    IN  IF keep = {} THEN <<>> ELSE SubSeq(s, SetMin(keep), SetMax(keep))

\* str.split("@", 1)[1]: everything after the first "@"
SplitAtFirst(s, ch) == Tail0(s, SetMin(Positions(s, ch)) + 1)

\* email.utils.parseaddr(address)[1] on the address forms used here:
\* the addr-spec inside <...> when there is one, else the string itself,
\* with white space removed.
ParseAddr(address) ==
    LET inner == IF Contains(address, "<")
                 THEN LET lt == SetMin(Positions(address, "<"))
                          gts == {k \in Positions(address, ">") : k > lt}
                          gt == IF gts = {} THEN Len(address) + 1 ELSE SetMin(gts)
                      IN  SubSeq(address, lt + 1, gt - 1)
                 ELSE address
    IN  SelectSeq(inner, LAMBDA ch : ch # " ")

\* ------------------------------------------------- domain resolution (core)
_extract_domain(address) ==
    LET email_addr == ParseAddr(address)
    IN  IF ~Contains(email_addr, "@")
        THEN NoneVal
        ELSE LET domain == Strip(SplitAtFirst(email_addr, "@"))
             IN  IF domain # <<>> THEN Lower(domain) ELSE NoneVal

_domain_from_hostname_whole(hostname) ==
    IF Positions(hostname, ".") = {} THEN NoneVal ELSE hostname

_domain_from_hostname(hostname) ==
    LET dots == Positions(hostname, ".")
    IN  IF dots = {}
        THEN NoneVal
        ELSE LET last == SetMax(dots)
                 before == {k \in dots : k < last}
                 from == IF before = {} THEN 1 ELSE SetMax(before) + 1
             IN  Tail0(hostname, from)

FallbackDomain == <<"e", "x", ".", "n">>

SenderDomain(sender, helo) ==
    PyOr(_extract_domain(sender), PyOr(_domain_from_hostname(helo), FallbackDomain))

RecipientDomain(recipient, sender_domain) ==
    PyOr(_extract_domain(recipient), sender_domain)

\* ------------------------------------------------------- host chain (core)
HostAt_lateHandOff(idx, total_hosts, sender_domain, recipient_domain) ==
    IF idx = total_hosts - 1
    THEN <<"mail", ".">> \o recipient_domain
    ELSE IF idx > Max2(1, total_hosts \div 2)
         THEN <<"mx", ToString(idx - (total_hosts \div 2) + 1), ".">> \o recipient_domain
         ELSE <<"smtp", ToString(idx + 1), ".">> \o sender_domain

HostAt(idx, total_hosts, sender_domain, recipient_domain) ==
    IF idx = total_hosts - 1
    THEN <<"mail", ".">> \o recipient_domain
    ELSE IF idx >= Max2(1, total_hosts \div 2)
         THEN <<"mx", ToString(idx - (total_hosts \div 2) + 1), ".">> \o recipient_domain
         ELSE <<"smtp", ToString(idx + 1), ".">> \o sender_domain

\* the Python list host_chain[0..total_hosts-1] is the sequence [1..total_hosts]
_build_host_chain(sender_domain, recipient_domain, hop_count) ==
    LET total_hosts == Max2(2, hop_count + 1)
    IN  [k \in 1..total_hosts |-> HostAt(k - 1, total_hosts, sender_domain, recipient_domain)]

\* ------------------------------------------------------------ IPv4 (core)
\* ipaddress.IPv4Address.is_private: membership in _private_networks
IsPrivate(o) ==
    \/ o[1] = 0
    \/ o[1] = 10
    \/ o[1] = 127
    \/ o[1] = 169 /\ o[2] = 254
    \/ o[1] = 172 /\ o[2] \in 16..31
    \/ o[1] = 192 /\ o[2] = 0 /\ o[3] = 0 /\ o[4] \in 0..7
    \/ o[1] = 192 /\ o[2] = 0 /\ o[3] = 0 /\ o[4] \in 170..171
    \/ o[1] = 192 /\ o[2] = 0 /\ o[3] = 2
    \/ o[1] = 192 /\ o[2] = 168
    \/ o[1] = 198 /\ o[2] \in 18..19
    \/ o[1] = 198 /\ o[2] = 51 /\ o[3] = 100
    \/ o[1] = 203 /\ o[2] = 0 /\ o[3] = 113
    \/ o[1] >= 240

\* ipaddress.IPv4Address.is_global: not in 100.64.0.0/10 and not is_private
IsGlobal(o) == ~(o[1] = 100 /\ o[2] \in 64..127) /\ ~IsPrivate(o)

\* str(IPv4Address): dotted quad
IpText(o) == <<ToString(o[1]), ".", ToString(o[2]), ".", ToString(o[3]), ".", ToString(o[4])>>

\* the values secrets.randbits(32) is drawn from, as octets
RandBits32 ==
    { <<8, 8, 8, 8>>, <<1, 1, 1, 1>>, <<9, 9, 9, 9>>, <<224, 0, 0, 1>>,
      <<10, 0, 0, 1>>, <<100, 64, 0, 1>>, <<192, 0, 2, 10>> }

\* the values secrets.token_hex(6) is drawn from
TokenHex == { <<"0", "a">>, <<"f", "f">> }

\* ------------------------------------------------------------------- time
MicrosPerSecond == 1000000

TwoMinutes == 120000000

\* email.utils.format_datetime: an RFC 5322 date has whole seconds only;
\* the date string is represented by the second it names.
FormatDatetime(t) == t \div MicrosPerSecond

\* ------------------------------------------------------ generator.py data
doc_ipv4 == << <<192, 0, 2, 10>>, <<198, 51, 100, 23>>, <<203, 0, 113, 77>> >>

doc_hosts ==
    << <<"mx1", ".", "e", "x", ".", "n">>, <<"mx2", ".", "e", "x", ".", "n">>,
       <<"edge", ".", "e", "x", ".", "n">>, <<"mailhub", ".", "e", "x", ".", "n">> >>

\* ----------------------------------------------------------------- inputs
DefaultHelo == <<"s", ".", "e", "x", ".", "n">>

DefaultHops == 3

Helos == { DefaultHelo, <<"h">>, <<"h", ".", "n">> }

Senders ==
    { <<"A", " ", "<", "a", "@", "F", ".", "c", ">">>,
      <<"a", "@", "b", ".", "o">>,
      <<"\"", "a", "@", "b", "\"", "@", "c">>,
      <<"n">>,
      <<>> }

Recipients ==
    { <<"b", "@", "B", ".", "o">>,
      <<"B", " ", "<", "b", "@", "g", ".", "c", ">">>,
      <<"n">> }

NoTime == 0 - 1

StartTimes == { NoTime, 1800000000, 1500250000 }

NowTimes == { 1200500000 }

NoHops == 0 - 99

HopArgs == {NoHops} \cup ((0 - 1)..MaxHops)

\* ------------------------------------------------------------------ state
VARIABLES
    mpc,              \* position in main() / EmlWriter.write
    is_file,          \* args.template.is_file()
    content,          \* what the template file holds
    args_hops,        \* args.hops
    exc,              \* the exception main() ended with, "" when none
    generator,        \* the EmailGenerator main() constructed, NoGenerator before
    create_calls,     \* number of create_message calls
    message,          \* the EmailMessage create_message returned
    dir_exists,       \* output_path.parent exists
    file,             \* the file at output_path
    handle,           \* "none", "open" or "closed": the handle of the with block
    written           \* number of serialized pieces written through the handle

mvars == << mpc, is_file, content, args_hops, exc, generator, create_calls, message,
            dir_exists, file, handle, written >>

\* the builder
VARIABLES
    pc,               \* position in the running call
    cls,              \* "core" (core/received_chain_builder.py) or "generator" (generator.py)
    sender, recipient, helo, self_hops, hops_arg, start_time,   \* arguments and configuration
    effective_start, hop_count, sender_domain, recipient_domain, host_chain,
    ips, seen, tick,  \* _generate_public_ips locals; tick flips on every loop iteration
    timestamp, received_values, i, result

bvars == << pc, cls, sender, recipient, helo, self_hops, hops_arg, start_time,
            effective_start, hop_count, sender_domain, recipient_domain, host_chain,
            ips, seen, tick, timestamp, received_values, i, result >>

BuilderIdle ==
    /\ pc = "idle" /\ cls = "none"
    /\ sender = <<>> /\ recipient = <<>> /\ helo = <<>>
    /\ self_hops = 0 /\ hops_arg = NoHops /\ start_time = NoTime
    /\ effective_start = 0 /\ hop_count = 0
    /\ sender_domain = <<>> /\ recipient_domain = <<>> /\ host_chain = <<>>
    /\ ips = <<>> /\ seen = {} /\ tick = 0
    /\ timestamp = 0 /\ received_values = <<>> /\ i = 0 /\ result = <<>>

\* ReceivedChainBuilder(helo=..., hops=...) constructed, build(...) about to run
BuilderInit ==
    /\ pc = "call"
    /\ cls \in {"core", "generator"}
    /\ sender \in Senders
    /\ recipient \in Recipients
    /\ helo \in Helos
    /\ hops_arg \in HopArgs
    /\ self_hops \in (IF hops_arg = NoHops THEN (0 - 1)..MaxHops ELSE {DefaultHops})
    /\ start_time \in StartTimes
    /\ (cls = "generator" => sender = <<>>)
    /\ effective_start = 0 /\ hop_count = 0
    /\ sender_domain = <<>> /\ recipient_domain = <<>> /\ host_chain = <<>>
    /\ ips = <<>> /\ seen = {} /\ tick = 0
    /\ timestamp = 0 /\ received_values = <<>> /\ i = 0 /\ result = <<>>

\* timestamp = effective_start - timedelta(minutes=2 * hop_count)
StartOffset_oneHopLate(start, hops) == start - TwoMinutes * (hops - 1)

StartOffset(start, hops) == start - TwoMinutes * hops

EffectiveStart(st, now) == IF st # NoTime THEN st ELSE now

HopCount_defaultOnly(arg, dflt) == dflt

HopCount(arg, dflt) == IF arg # NoHops THEN arg ELSE dflt

\* core build(), lines 34-40 up to the entry of _generate_public_ips
BuildStart ==
    /\ pc = "call" /\ cls = "core"
    /\ \E now \in NowTimes : effective_start' = EffectiveStart(start_time, now)
    /\ hop_count' = HopCount(hops_arg, self_hops)
    /\ sender_domain' = SenderDomain(sender, helo)
    /\ recipient_domain' = RecipientDomain(recipient, sender_domain')
    /\ host_chain' = _build_host_chain(sender_domain', recipient_domain', hop_count')
    /\ ips' = <<>> /\ seen' = {}
    /\ pc' = "ips"
    /\ UNCHANGED << cls, sender, recipient, helo, self_hops, hops_arg, start_time,
                    tick, timestamp, received_values, i, result >>
    /\ UNCHANGED mvars

\* one iteration of the while loop of _generate_public_ips
DrawIp ==
    /\ pc = "ips" /\ Len(ips) < hop_count
    /\ \E candidate \in RandBits32 :
         IF ~IsGlobal(candidate)
         THEN UNCHANGED << ips, seen >>
         ELSE LET as_text == IpText(candidate)
              IN  IF as_text \in seen
                  THEN UNCHANGED << ips, seen >>
                  ELSE /\ ips' = Append(ips, as_text)
                       /\ seen' = seen \cup {as_text}
    /\ tick' = 1 - tick
    /\ UNCHANGED << pc, cls, sender, recipient, helo, self_hops, hops_arg, start_time,
                    effective_start, hop_count, sender_domain, recipient_domain,
                    host_chain, timestamp, received_values, i, result >>
    /\ UNCHANGED mvars

\* _generate_public_ips returns; build() line 42-43
IpsReturn ==
    /\ pc = "ips" /\ ~(Len(ips) < hop_count)
    /\ timestamp' = StartOffset(effective_start, hop_count)
    /\ received_values' = <<>>
    /\ i' = 0
    /\ pc' = "loop"
    /\ UNCHANGED << cls, sender, recipient, helo, self_hops, hops_arg, start_time,
                    effective_start, hop_count, sender_domain, recipient_domain,
                    host_chain, ips, seen, tick, result >>
    /\ UNCHANGED mvars

\* the f-string of a Received value, field by field
ReceivedValue(helo_value, from_host, ip, by_host, esmtp_id, rcpt, ts) ==
    [ helo |-> helo_value, from_host |-> from_host, ip |-> ip, by_host |-> by_host,
      esmtp_id |-> esmtp_id, recipient |-> rcpt, date |-> FormatDatetime(ts) ]

\* one iteration of the for loop of core build(), lines 45-59
Hop ==
    /\ pc = "loop" /\ cls = "core" /\ i < hop_count
    /\ timestamp' = timestamp + TwoMinutes
    /\ \E esmtp_id \in TokenHex :
         LET from_host == host_chain[i + 1]
             by_host == host_chain[i + 2]
             helo_value == PyOr(from_host, helo)
             ip == ips[i + 1]
         IN  received_values' = Append(received_values,
                 ReceivedValue(helo_value, from_host, ip, by_host, esmtp_id, recipient, timestamp'))
    /\ i' = i + 1
    /\ UNCHANGED << pc, cls, sender, recipient, helo, self_hops, hops_arg, start_time,
                    effective_start, hop_count, sender_domain, recipient_domain,
                    host_chain, ips, seen, tick, result >>
    /\ UNCHANGED mvars

\* generator.py build(), lines 34-41
LegacyBuildStart ==
    /\ pc = "call" /\ cls = "generator"
    /\ \E now \in NowTimes : effective_start' = EffectiveStart(start_time, now)
    /\ hop_count' = HopCount(hops_arg, self_hops)
    /\ timestamp' = StartOffset(effective_start', hop_count')
    /\ received_values' = <<>>
    /\ i' = 0
    /\ pc' = "loop"
    /\ UNCHANGED << cls, sender, recipient, helo, self_hops, hops_arg, start_time,
                    sender_domain, recipient_domain, host_chain, ips, seen, tick, result >>
    /\ UNCHANGED mvars

\* one iteration of the for loop of generator.py build(), lines 45-58
LegacyHop ==
    /\ pc = "loop" /\ cls = "generator" /\ i < hop_count
    /\ timestamp' = timestamp + TwoMinutes
    /\ \E esmtp_id \in TokenHex :
         LET ip == IpText(doc_ipv4[(i % Len(doc_ipv4)) + 1])
             by_host == doc_hosts[(i % Len(doc_hosts)) + 1]
             frm_host == doc_hosts[((i + 1) % Len(doc_hosts)) + 1]
         IN  received_values' = Append(received_values,
                 ReceivedValue(helo, frm_host, ip, by_host, esmtp_id, recipient, timestamp'))
    /\ i' = i + 1
    /\ UNCHANGED << pc, cls, sender, recipient, helo, self_hops, hops_arg, start_time,
                    effective_start, hop_count, sender_domain, recipient_domain,
                    host_chain, ips, seen, tick, result >>
    /\ UNCHANGED mvars

\* return list(reversed(received_values)), either class
Return ==
    /\ pc = "loop" /\ ~(i < hop_count)
    /\ result' = Reversed(received_values)
    /\ pc' = "done"
    /\ UNCHANGED << cls, sender, recipient, helo, self_hops, hops_arg, start_time,
                    effective_start, hop_count, sender_domain, recipient_domain,
                    host_chain, ips, seen, tick, timestamp, received_values, i >>
    /\ UNCHANGED mvars


\* ------------------------------------------------------------ main.py data
Keys == {"subject", "text", "html"}

\* a JSON object over a subset of the required keys; a value is known by its type
JsonObjects == UNION { [K -> {"str", "int"}] : K \in SUBSET Keys }

NoObject == [k \in {} |-> "str"]

\* template file contents: text that is not JSON, bytes that are not UTF-8,
\* JSON whose top level is an array or a number, JSON objects
Contents ==
    { [kind |-> k, obj |-> NoObject] : k \in {"invalid_json", "invalid_utf8", "array", "number"} }
    \cup { [kind |-> "object", obj |-> o] : o \in JsonObjects }

\* load_template: the exception it raises ("" when it returns) 
load_template(c) ==
    IF c.kind = "invalid_json" THEN "ValueError"          \* JSONDecodeError re-raised as ValueError
    ELSE IF c.kind = "invalid_utf8" THEN "ValueError"     \* UnicodeDecodeError is a ValueError
    ELSE IF c.kind # "object" THEN "TypeError"            \* data["subject"] on a list or a number
    ELSE IF ~(Keys \subseteq DOMAIN c.obj) THEN "ValueError"   \* KeyError re-raised as ValueError
    ELSE IF ~(\A k \in Keys : c.obj[k] = "str") THEN "ValueError"
    ELSE ""

\* main(): except ValueError -> SystemExit; anything else propagates
MainExcept(e) == IF e = "ValueError" THEN "SystemExit" ELSE e

NoGenerator == [built |-> FALSE, hops |-> 0]

NoMessage == [built |-> FALSE, received |-> <<>>]

NoFile == [exists |-> FALSE, data |-> <<>>]

OldFile == [exists |-> TRUE, data |-> <<"old">>]

FakerRecipients == { <<"B", " ", "<", "b", "@", "g", ".", "c", ">">> }

\* the pieces BytesGenerator.flatten writes, in order
Serialized(msg) ==
    <<"From", "To", "Subject", "Date", "Message-ID", "MIME-Version">>
    \o [k \in 1..Len(msg.received) |-> "Received"]
    \o <<"text/plain", "text/html">>

MainIdle ==
    /\ mpc = "idle" /\ is_file = FALSE /\ content = [kind |-> "number", obj |-> NoObject]
    /\ args_hops = 0 /\ exc = "" /\ generator = NoGenerator /\ create_calls = 0
    /\ message = NoMessage /\ dir_exists = FALSE /\ file = NoFile
    /\ handle = "none" /\ written = 0

\* after parse_args()
MainInit ==
    /\ mpc = "check"
    /\ is_file \in BOOLEAN
    /\ content \in Contents
    /\ args_hops \in (0 - 1)..MaxHops
    /\ exc = "" /\ generator = NoGenerator /\ create_calls = 0 /\ message = NoMessage
    /\ dir_exists \in BOOLEAN
    /\ file \in {NoFile, OldFile}
    /\ (file.exists => dir_exists)
    /\ handle = "none" /\ written = 0

\* main() lines 63-64
MainCheckTemplate ==
    /\ mpc = "check"
    /\ IF ~is_file
       THEN mpc' = "exit" /\ exc' = "SystemExit"
       ELSE mpc' = "load" /\ exc' = exc
    /\ UNCHANGED << is_file, content, args_hops, generator, create_calls, message,
                    dir_exists, file, handle, written >>
    /\ UNCHANGED bvars

\* main() lines 66-69 with load_template
MainLoadTemplate ==
    /\ mpc = "load"
    /\ LET raised == load_template(content)
       IN  IF raised # ""
           THEN mpc' = "exit" /\ exc' = MainExcept(raised)
           ELSE mpc' = "construct" /\ exc' = exc
    /\ UNCHANGED << is_file, content, args_hops, generator, create_calls, message,
                    dir_exists, file, handle, written >>
    /\ UNCHANGED bvars

\* main() line 71: EmailGenerator(faker_locale=..., hops=args.hops)
MainConstructGenerator ==
    /\ mpc = "construct"
    /\ generator' = [built |-> TRUE, hops |-> args_hops]
    /\ mpc' = "create"
    /\ UNCHANGED << is_file, content, args_hops, exc, create_calls, message,
                    dir_exists, file, handle, written >>
    /\ UNCHANGED bvars

\* create_message up to the call self.received_builder.build(recipient=..., hops=None)
CreateMessage ==
    /\ mpc = "create"
    /\ create_calls' = create_calls + 1
    /\ cls' = "generator"
    /\ sender' = <<>>
    /\ recipient' \in FakerRecipients
    /\ helo' = DefaultHelo
    /\ self_hops' = generator.hops
    /\ hops_arg' = NoHops
    /\ start_time' = NoTime
    /\ pc' = "call"
    /\ mpc' = "building"
    /\ UNCHANGED << effective_start, hop_count, sender_domain, recipient_domain, host_chain,
                    ips, seen, tick, timestamp, received_values, i, result >>
    /\ UNCHANGED << is_file, content, args_hops, exc, generator, message,
                    dir_exists, file, handle, written >>

\* create_message after build() returned: Received headers, bodies, return msg
CreateMessageFinish ==
    /\ mpc = "building" /\ pc = "done"
    /\ message' = [built |-> TRUE, received |-> result]
    /\ mpc' = "mkdir"
    /\ UNCHANGED << is_file, content, args_hops, exc, generator, create_calls,
                    dir_exists, file, handle, written >>
    /\ UNCHANGED bvars

\* EmlWriter.write: output_path.parent.mkdir(parents=True, exist_ok=True)
WriteMkdir ==
    /\ mpc = "mkdir"
    /\ \/ /\ dir_exists' = TRUE
          /\ mpc' = "open" /\ exc' = exc
       \/ /\ ~dir_exists
          /\ dir_exists' = dir_exists
          /\ mpc' = "exit" /\ exc' = "OSError"
    /\ UNCHANGED << is_file, content, args_hops, generator, create_calls, message,
                    file, handle, written >>
    /\ UNCHANGED bvars

\* EmlWriter.write: output_path.open("wb") creates or truncates the file
WriteOpen ==
    /\ mpc = "open"
    /\ \/ /\ file' = [exists |-> TRUE, data |-> <<>>]
          /\ handle' = "open" /\ written' = 0
          /\ mpc' = "flatten" /\ exc' = exc
       \/ /\ UNCHANGED << file, handle, written >>
          /\ mpc' = "exit" /\ exc' = "OSError"
    /\ UNCHANGED << is_file, content, args_hops, generator, create_calls, message, dir_exists >>
    /\ UNCHANGED bvars

\* EmlWriter.write: generator.flatten(msg), one piece per step; a failed write
\* leaves the with block, which closes the handle, and propagates
WriteFlatten ==
    /\ mpc = "flatten" /\ written < Len(Serialized(message))
    /\ \/ /\ file' = [file EXCEPT !.data = Append(@, Serialized(message)[written + 1])]
          /\ written' = written + 1
          /\ UNCHANGED << handle, mpc, exc >>
       \/ /\ handle' = "closed"
          /\ mpc' = "exit" /\ exc' = "OSError"
          /\ UNCHANGED << file, written >>
    /\ UNCHANGED << is_file, content, args_hops, generator, create_calls, message, dir_exists >>
    /\ UNCHANGED bvars

\* EmlWriter.write: the with block ends, return output_path
WriteClose ==
    /\ mpc = "flatten" /\ written = Len(Serialized(message))
    /\ handle' = "closed"
    /\ mpc' = "print"
    /\ UNCHANGED << is_file, content, args_hops, exc, generator, create_calls, message,
                    dir_exists, file, written >>
    /\ UNCHANGED bvars

\* main() line 81
MainPrint ==
    /\ mpc = "print"
    /\ mpc' = "exit"
    /\ UNCHANGED << is_file, content, args_hops, exc, generator, create_calls, message,
                    dir_exists, file, handle, written >>
    /\ UNCHANGED bvars

\* ---------------------------------------------------------- specifications
vars == << mvars, bvars >>

\* one build() call of either ReceivedChainBuilder
Init == BuilderInit /\ MainIdle

Next ==
    \/ BuildStart
    \/ DrawIp
    \/ IpsReturn
    \/ Hop
    \/ LegacyBuildStart
    \/ LegacyHop
    \/ Return

Spec == Init /\ [][Next]_vars

\* the same, the interpreter never stopping while a statement can run
\* (one sender, recipient and HELO name: the sampling loop does not read them)
FairInit ==
    /\ Init
    /\ sender \in {<<>>} /\ recipient \in {<<"n">>} /\ helo = DefaultHelo
    /\ start_time = NoTime

FairSpec == FairInit /\ [][Next]_vars /\ WF_vars(Next)

\* one run of main()
MainRunInit == MainInit /\ BuilderIdle

MainNext ==
    \/ MainCheckTemplate
    \/ MainLoadTemplate
    \/ MainConstructGenerator
    \/ CreateMessage
    \/ LegacyBuildStart
    \/ LegacyHop
    \/ Return
    \/ CreateMessageFinish
    \/ WriteMkdir
    \/ WriteOpen
    \/ WriteFlatten
    \/ WriteClose
    \/ MainPrint

MainSpec == MainRunInit /\ [][MainNext]_vars

\* ================================================================== claims
ArgHops == IF hops_arg # NoHops THEN hops_arg ELSE self_hops

OldestFirst == Reversed(result)

\* C1: for every hop count >= 0, explicit or the configured default, build()
\* returns exactly that many Received values (none for 0).
C1_ExactlyHops ==
    (pc = "done" /\ ArgHops >= 0) => Len(result) = ArgHops

C1_Witness ==
    /\ pc = "done" /\ cls = "core"
    /\ hops_arg = NoHops /\ self_hops = 2 /\ Len(result) = 2

\* C2 as stated: read oldest first, the dates of the returned values rise by
\* exactly 2 minutes, the first is startTime - 2*hops min + 2 min and the
\* newest (first returned) equals startTime.
C2_TimestampsExact ==
    (pc = "done" /\ ArgHops >= 1) =>
        /\ \A k \in 1..(Len(OldestFirst) - 1) :
             OldestFirst[k + 1].date * MicrosPerSecond
                 = OldestFirst[k].date * MicrosPerSecond + TwoMinutes
        /\ OldestFirst[1].date * MicrosPerSecond
               = effective_start - ArgHops * TwoMinutes + TwoMinutes
        /\ result[1].date * MicrosPerSecond = effective_start

WholeSeconds(t) == t - (t % MicrosPerSecond)

\* C2 amended: the same, with the first and the newest date equal to those
\* instants cut to whole seconds (an RFC 5322 date carries no fraction).
C2_TimestampsToTheSecond ==
    (pc = "done" /\ ArgHops >= 1) =>
        /\ \A k \in 1..(Len(OldestFirst) - 1) :
             OldestFirst[k + 1].date * MicrosPerSecond
                 = OldestFirst[k].date * MicrosPerSecond + TwoMinutes
        /\ OldestFirst[1].date * MicrosPerSecond
               = WholeSeconds(effective_start - ArgHops * TwoMinutes + TwoMinutes)
        /\ result[1].date * MicrosPerSecond = WholeSeconds(effective_start)

C2_Witness ==
    /\ pc = "done" /\ cls = "core" /\ Len(result) = 3
    /\ effective_start % MicrosPerSecond # 0
    /\ result[1].date = result[3].date + 240

KnownAddresses == RandBits32 \cup {doc_ipv4[k] : k \in 1..Len(doc_ipv4)}

OctetsOf(text) == CHOOSE o \in KnownAddresses : IpText(o) = text

IsMulticast(o) == o[1] \in 224..239

\* C3: every IP address in the values one build() call returns is globally
\* routable (not reserved, private, loopback, link-local or multicast) and
\* none appears in two of the returned values.
C3_IpsGlobalAndDistinct ==
    pc = "done" =>
        /\ \A k \in 1..Len(result) :
             IsGlobal(OctetsOf(result[k].ip)) /\ ~IsMulticast(OctetsOf(result[k].ip))
        /\ \A k, m \in 1..Len(result) : k # m => result[k].ip # result[m].ip

\* C4: build() with a negative hop count never returns a sequence.
C4_NegativeHopsNeverReturn ==
    pc = "done" => ArgHops >= 0

Smtp(n, d) == <<"smtp", ToString(n), ".">> \o d

Mx(n, d) == <<"mx", ToString(n), ".">> \o d

Mail(d) == <<"mail", ".">> \o d

\* C5: for hops >= 0 the host chain has T = max(2, hops+1) names; the last
\* is mail.<recipient domain>; below floor(T/2) they are smtp{idx+1}.<sender
\* domain>; from floor(T/2) to T-2 they are mx{n}.<recipient domain>, n
\* counting from 1; for hops >= 1 the final hop is received by the mail host.
C5_HostChainShape ==
    (cls = "core" /\ pc \in {"ips", "loop", "done"} /\ ArgHops >= 0) =>
        LET T == IF ArgHops + 1 > 2 THEN ArgHops + 1 ELSE 2
            half == T \div 2
        IN  /\ Len(host_chain) = T
            /\ host_chain[T] = Mail(recipient_domain)
            /\ \A idx \in 0..(half - 1) : host_chain[idx + 1] = Smtp(idx + 1, sender_domain)
            /\ \A idx \in half..(T - 2) :
                 host_chain[idx + 1] = Mx(idx - half + 1, recipient_domain)
            /\ host_chain[1] = Smtp(1, sender_domain)
            /\ (pc = "done" /\ ArgHops >= 1) => result[1].by_host = Mail(recipient_domain)

C5_Witness ==
    /\ cls = "core" /\ pc = "done" /\ ArgHops = 3
    /\ host_chain[2] = Smtp(2, sender_domain)
    /\ host_chain[3] = Mx(1, recipient_domain)
    /\ result[1].by_host = Mail(recipient_domain)
    /\ sender_domain # recipient_domain

RECURSIVE Labels(_)
\* the dot-separated labels of a name
Labels(s) ==
    IF ~Contains(s, ".")
    THEN << s >>
    ELSE LET d == SetMin(Positions(s, "."))
         IN  << SubSeq(s, 1, d - 1) >> \o Labels(SubSeq(s, d + 1, Len(s)))

\* the part of a parsed address after its first "@", "" when there is none
AfterAt(a) ==
    IF \E k \in 1..Len(a) : a[k] = "@"
    THEN LET k == CHOOSE k \in 1..Len(a) : a[k] = "@" /\ \A m \in 1..(k - 1) : a[m] # "@"
         IN  [m \in 1..(Len(a) - k) |-> a[k + m]]
    ELSE <<>>

ExpectedSenderDomain ==
    LET after == AfterAt(ParseAddr(sender))
        labels == Labels(helo)
        n == Len(labels)
    IN  IF after # <<>> THEN Lower(after)
        ELSE IF n >= 2 THEN labels[n - 1] \o <<".">> \o labels[n]
        ELSE FallbackDomain

\* C6: the sender domain is the lower-cased part after "@" of the parsed
\* sender when there is one; else the last two labels of the HELO name when
\* it has two; else the fixed default. The recipient domain is the
\* recipient's own, else the sender's. Neither is ever empty.
C6_DomainResolution ==
    (cls = "core" /\ pc \in {"ips", "loop", "done"}) =>
        /\ sender_domain = ExpectedSenderDomain
        /\ sender_domain # <<>> /\ sender_domain # NoneVal
        /\ recipient_domain =
              (IF AfterAt(ParseAddr(recipient)) # <<>>
               THEN Lower(AfterAt(ParseAddr(recipient)))
               ELSE sender_domain)
        /\ recipient_domain # <<>> /\ recipient_domain # NoneVal

C6_Witness ==
    /\ cls = "core" /\ pc = "done"
    /\ ~Contains(sender, "@") /\ ~Contains(recipient, "@")
    /\ helo = <<"h", ".", "n">>
    /\ sender_domain = <<"h", ".", "n">>
    /\ recipient_domain = sender_domain

Malformed(c) ==
    \/ c.kind = "invalid_json"
    \/ ~(Keys \subseteq DOMAIN c.obj)
    \/ \E k \in Keys \cap DOMAIN c.obj : c.obj[k] # "str"

\* C7: when the template is malformed JSON, lacks one of subject/text/html or
\* holds a non-string under one of them, main() ends with SystemExit and no
\* generation step happened: no EmailGenerator, no create_message, no write.
C7_MalformedTemplateIsSystemExit ==
    (mpc = "exit" /\ is_file /\ Malformed(content)) =>
        /\ exc = "SystemExit"
        /\ ~generator.built /\ create_calls = 0 /\ handle = "none"

\* the half of C7 that the code keeps: nothing is generated from such a template
C7_NoGenerationFromMalformed ==
    (is_file /\ Malformed(content)) =>
        ~generator.built /\ create_calls = 0 /\ handle = "none" /\ ~message.built

\* C8: EmlWriter.write writes the whole message or fails leaving no partly
\* written file at the output path.
C8_NoPartialFile ==
    (mpc = "exit" /\ exc = "OSError") =>
        ~(file.exists /\ file.data # OldFile.data /\ file.data # Serialized(message))

\* the half of C8 that the code keeps: the file is opened only in an existing directory
C8_MkdirBeforeOpen ==
    handle # "none" => dir_exists

\* C9: _generate_public_ips always stops; it never retries forever.
C9_IpLoopTerminates ==
    (pc = "ips") ~> (pc # "ips")

\* C10: the relay path is linked: in the returned (newest first) sequence the
\* fromHost of each value is the byHost of the value after it.
C10_RelayPathLinked ==
    pc = "done" =>
        \A k \in 1..(Len(result) - 1) : result[k].from_host = result[k + 1].by_host

\* C10 on the core builder alone: hop i goes from host_chain[i] to host_chain[i+1]
C10_CoreHopsFollowHostChain ==
    (pc = "done" /\ cls = "core") =>
        \A k \in 1..Len(result) :
            /\ OldestFirst[k].from_host = host_chain[k]
            /\ OldestFirst[k].by_host = host_chain[k + 1]

====
